---- MODULE Spec2Model ----
(***************************************************************************)
(* MT5 candle store: the live updater (live_updater.py) and the one-shot   *)
(* backfill (AutoTrader/main.py) writing per-(symbol, timeframe) tables of *)
(* one SQLite database.                                                    *)
(*                                                                         *)
(* A table is its schema and the bag of its rows (the AUTOINCREMENT id is  *)
(* left out: no statement of the programs reads it).  A row's OHLCV values *)
(* (open, high, low, close, tick_volume, spread, real_volume) are written  *)
(* together by every statement of the programs; `close` stands for them.   *)
(* Times are integer epoch seconds; the update interval is kept in         *)
(* hundredths of a second so that 0.05 s is the integer 5.                 *)
(*                                                                         *)
(* `running` is the module global of live_updater.py and `main` the frame  *)
(* of its main(): where it stands and its local variables.                 *)
(***************************************************************************)
EXTENDS Integers, Sequences, FiniteSets, Bags, TLC

VARIABLES store, last, call, running, main, now, writers

vars == <<store, last, call, running, main, now, writers>>

(***************************************************************************)
(* Bounds of the model.                                                    *)
(***************************************************************************)
\* longest window of bars the quote source returns in one fetch
MaxWindow == 2
\* longest list of configured timeframes handed to calculate_update_interval
MaxTimeframes == 2
\* longest window of bars download_data hands to save_to_database
MaxBackfill == 3
\* longest config["timeframes"] of the live updater
MaxConfig == 2
\* cycles of the update loop that are followed
MaxCycles == 2
\* largest value of the limit parameter of a /candles request
MaxLimit == 2

(***************************************************************************)
(* Timeframe labels, as the character sequences the code inspects.         *)
(***************************************************************************)
TF_M1 == <<"M", "1">>
TF_MN1 == <<"M", "N", "1">>
TF_D1 == <<"D", "1">>
TF_W1 == <<"W", "1">>

\* the keys of timeframe_dict
CatalogLabels ==
    { <<"M", "1">>, <<"M", "2">>, <<"M", "3">>, <<"M", "4">>, <<"M", "5">>,
      <<"M", "6">>, <<"M", "1", "0">>, <<"M", "1", "2">>, <<"M", "1", "5">>,
      <<"M", "2", "0">>, <<"M", "3", "0">>,
      <<"H", "1">>, <<"H", "2">>, <<"H", "3">>, <<"H", "4">>, <<"H", "6">>,
      <<"H", "8">>, <<"H", "1", "2">>,
      TF_D1, TF_W1, TF_MN1 }

\* timeframe_dict.get(timeframe_str): the native identifier, or None.  The
\* identifier itself is an opaque MetaTrader constant; only None matters.
get_timeframe_constant(timeframe_str) ==
    IF timeframe_str \in CatalogLabels
    THEN [kind |-> "const", label |-> timeframe_str]
    ELSE [kind |-> "None", label |-> <<>>]

Digits == {"0", "1", "2", "3", "4", "5", "6", "7", "8", "9"}

DigitVal(c) ==
    CASE c = "0" -> 0 [] c = "1" -> 1 [] c = "2" -> 2 [] c = "3" -> 3
      [] c = "4" -> 4 [] c = "5" -> 5 [] c = "6" -> 6 [] c = "7" -> 7
      [] c = "8" -> 8 [] c = "9" -> 9

RECURSIVE DecimalValue(_)
DecimalValue(chars) ==
    IF chars = <<>> THEN 0
    ELSE 10 * DecimalValue(SubSeq(chars, 1, Len(chars) - 1))
         + DigitVal(chars[Len(chars)])

\* Python's int(str) on the labels' tails: a value for a non-empty string of
\* decimal digits, ValueError otherwise.
PyInt(chars) ==
    IF chars # <<>> /\ \A i \in 1..Len(chars) : chars[i] \in Digits
    THEN [kind |-> "int", val |-> DecimalValue(chars)]
    ELSE [kind |-> "ValueError", val |-> 0]

\* get_timeframe_seconds: an int, None, or the ValueError int() raises.  The
\* startswith('M') test comes first, so 'MN1' reaches int('N1').
get_timeframe_seconds(timeframe_str) ==
    IF timeframe_str # <<>> /\ Head(timeframe_str) = "M"
    THEN LET n == PyInt(Tail(timeframe_str))
         IN  IF n.kind = "int" THEN [kind |-> "int", val |-> n.val * 60] ELSE n
    ELSE IF timeframe_str # <<>> /\ Head(timeframe_str) = "H"
    THEN LET n == PyInt(Tail(timeframe_str))
         IN  IF n.kind = "int" THEN [kind |-> "int", val |-> n.val * 3600] ELSE n
    ELSE IF timeframe_str = TF_D1 THEN [kind |-> "int", val |-> 86400]
    ELSE IF timeframe_str = TF_W1 THEN [kind |-> "int", val |-> 604800]
    ELSE IF timeframe_str = TF_MN1 THEN [kind |-> "int", val |-> 2592000]
    ELSE [kind |-> "None", val |-> 0]

\* the bar counted complete only after its closing second
is_candle_complete_strict(current_time, candle_time, timeframe_str) ==
    LET timeframe_seconds == get_timeframe_seconds(timeframe_str)
    IN  IF timeframe_seconds.kind = "ValueError"
        THEN [kind |-> "ValueError", val |-> FALSE]
        ELSE IF timeframe_seconds.kind = "None"
        THEN [kind |-> "bool", val |-> TRUE]
        ELSE [kind |-> "bool",
              val |-> current_time > candle_time + timeframe_seconds.val]

\* is_candle_complete: a bool, or the ValueError of get_timeframe_seconds
is_candle_complete(current_time, candle_time, timeframe_str) ==
    LET timeframe_seconds == get_timeframe_seconds(timeframe_str)
    IN  IF timeframe_seconds.kind = "ValueError"
        THEN [kind |-> "ValueError", val |-> FALSE]
        ELSE IF timeframe_seconds.kind = "None"
        THEN [kind |-> "bool", val |-> TRUE]
        ELSE [kind |-> "bool",
              val |-> current_time >= candle_time + timeframe_seconds.val]


Min(a, b) == IF a < b THEN a ELSE b

Max(a, b) == IF a > b THEN a ELSE b

\* the loop of lines 336-339 from timeframes[i] on: min_interval, which is
\* float('inf') until a timeframe of non-zero seconds is seen
RECURSIVE MinInterval(_, _, _)
MinInterval(timeframes, i, min_interval) ==
    IF i > Len(timeframes) THEN min_interval
    ELSE LET seconds == get_timeframe_seconds(timeframes[i])
         IN  IF seconds.kind = "ValueError" THEN seconds
             ELSE IF /\ seconds.kind = "int"
                     /\ seconds.val # 0
                     /\ (min_interval.kind = "inf" \/ seconds.val < min_interval.val)
             THEN MinInterval(timeframes, i + 1, seconds)
             ELSE MinInterval(timeframes, i + 1, min_interval)

\* calculate_update_interval: max(0.05, min(60, min_interval // 4)) in
\* hundredths of a second, or the ValueError of get_timeframe_seconds
calculate_update_interval(timeframes) ==
    LET m == MinInterval(timeframes, 1, [kind |-> "inf", val |-> 0])
    IN  IF m.kind = "ValueError" THEN m
        ELSE LET min_interval == IF m.kind = "inf" THEN 60 ELSE m.val
             IN  [kind |-> "num",
                  val |-> Max(5, Min(6000, (min_interval \div 4) * 100))]

(***************************************************************************)
(* The series of the model and the inputs drawn for them.                  *)
(***************************************************************************)
Symbols == {"EURUSD"}
\* config["timeframes"] after the catalog filter of main()
Timeframes == {TF_M1}
\* a table is named f"{symbol}_{timeframe_str}"
Series == Symbols \X Timeframes

\* open times of the bars the source may return
OpenTimes == {100, 160, 220}
\* abstract OHLCV value levels
Closes == {1, 2}
\* wall-clock readings of datetime.now(): only bar 100 closed (165), bars 100
\* and 160 closed (225), every bar closed (280)
RefTimes == {165, 225, 280}

RawBars == [time : OpenTimes, close : Closes]

\* every sequence of at most n raw bars, in any order, open times repeated or not
Windows(n) == UNION {[1..k -> RawBars] : k \in 0..n}

\* what the source answers to symbol_select, and what copy_rates_from_pos
\* returns (None, or a window that may be empty)
SourceReplies ==
    {[select |-> sel, none |-> TRUE, rates |-> <<>>] : sel \in BOOLEAN}
    \cup {[select |-> sel, none |-> FALSE, rates |-> w] :
             sel \in BOOLEAN, w \in Windows(MaxWindow)}

\* store errors other than a violated constraint: the bulk SELECT raises, or the
\* write of the row at position `write` raises (0: none)
Faults(n) ==
    {[read |-> TRUE, write |-> 0]}
    \cup {[read |-> FALSE, write |-> k] : k \in 0..n}

NoFault == [read |-> FALSE, write |-> 0]

(***************************************************************************)
(* The SQLite store.                                                       *)
(***************************************************************************)
\* the format '%Y-%m-%d': the calendar day alone
StrftimeDateOnly(t) == <<t \div 86400>>

\* pd.to_datetime(time, unit='s').dt.strftime('%Y-%m-%d %H:%M:%S'): the
\* calendar day (as its number since the epoch), hour, minute and second
Strftime(t) ==
    <<t \div 86400, (t % 86400) \div 3600, (t % 3600) \div 60, t % 60>>

\* CREATE TABLE IF NOT EXISTS of live_updater.init_database
LiveTable == [schema |-> "live", rows |-> EmptyBag]
\* CREATE TABLE [IF NOT EXISTS] of AutoTrader/main.py: no is_completed column
BackfillTable == [schema |-> "backfill", rows |-> EmptyBag]

RowsAt(table, datetime) == {r \in BagToSet(table.rows) : r.datetime = datetime}

\* the INSERT into a table whose datetime column is not UNIQUE
SqlInsertNoConstraint(table, row) ==
    [ok |-> TRUE, table |-> [table EXCEPT !.rows = @ (+) SetToBag({row})]]

\* INSERT INTO: the UNIQUE constraint of the datetime column raises
\* sqlite3.IntegrityError when a row of that datetime is stored
SqlInsert(table, row) ==
    IF RowsAt(table, row.datetime) # {}
    THEN [ok |-> FALSE, table |-> table]
    ELSE [ok |-> TRUE, table |-> [table EXCEPT !.rows = @ (+) SetToBag({row})]]

\* the UPDATE without its WHERE clause: every row is rewritten
SqlUpdateNoWhere(table, row) ==
    LET n == BagCardinality(table.rows)
    IN  [table EXCEPT !.rows = IF n = 0 THEN EmptyBag ELSE [r \in {row} |-> n]]

\* DELETE ... WHERE datetime = ? in the place of the UPDATE
SqlDeleteWhere(table, row) ==
    LET hit == RowsAt(table, row.datetime)
    IN  [table EXCEPT !.rows =
            [r \in BagToSet(table.rows) \ hit |-> table.rows[r]]]

\* UPDATE ... SET <every column but datetime> WHERE datetime = ?
SqlUpdate(table, row) ==
    LET hit  == RowsAt(table, row.datetime)
        keep == [r \in BagToSet(table.rows) \ hit |-> table.rows[r]]
        n    == BagCardinality(table.rows) - BagCardinality(keep)
    IN  [table EXCEPT !.rows =
            IF n = 0 THEN keep ELSE keep (+) [r \in {row} |-> n]]

\* SELECT datetime, is_completed: fails on a table without the column
SelectCompletedOk(table) == table.schema = "live"

\* existing_candles: datetime -> is_completed
ExistingCandles(table) ==
    [d \in {r.datetime : r \in BagToSet(table.rows)} |->
        (CHOOSE r \in BagToSet(table.rows) : r.datetime = d).is_completed]

\* lines 255-263 continuing with an empty mapping when the SELECT raises
SelectExistingOrEmpty(table, fault) ==
    [ok |-> TRUE,
     candles |-> IF fault.read \/ ~SelectCompletedOk(table) THEN << >>
                 ELSE ExistingCandles(table)]

\* lines 255-263: the one bulk read of the persisted datetime -> is_completed
\* mapping; it raises sqlite3.Error on an injected fault or a missing column
SelectExisting(table, fault) ==
    IF fault.read \/ ~SelectCompletedOk(table)
    THEN [ok |-> FALSE, candles |-> << >>]
    ELSE [ok |-> TRUE, candles |-> ExistingCandles(table)]

\* SELECT datetime: fails only when the table is missing
ExistingDatetimes(table) == {r.datetime : r \in BagToSet(table.rows)}

(***************************************************************************)
(* live_updater.update_database                                            *)
(***************************************************************************)
\* the clock read again for every bar, older bars having been judged earlier
DfRowResampled(bar, current_time, timeframe_str) ==
    [datetime |-> Strftime(bar.time), time |-> bar.time, close |-> bar.close,
     is_completed |->
        IF is_candle_complete(current_time - 2 * (220 - bar.time), bar.time,
                              timeframe_str).val
        THEN 1 ELSE 0]

\* the DataFrame row of a raw bar: datetime_str and is_completed added
DfRow(bar, current_time, timeframe_str) ==
    [datetime |-> Strftime(bar.time), time |-> bar.time, close |-> bar.close,
     is_completed |->
        IF is_candle_complete(current_time, bar.time, timeframe_str).val
        THEN 1 ELSE 0]

\* line 274 without its second disjunct
NeedsUpdateIncompleteOnly(existing, is_completed) == existing = 0

\* line 274 dropped: every stored bar of the window is rewritten
NeedsUpdateAlways(existing, is_completed) == TRUE

\* line 274 refreshing only the bars that stay incomplete
NeedsUpdateNoRevert(existing, is_completed) == existing = 0 /\ is_completed = 0

\* line 274: rewrite a stored bar that is incomplete or whose flag changed
NeedsUpdate(existing, is_completed) ==
    existing = 0 \/ existing # is_completed

\* the loop of lines 268-318 leaving the window at the first write that raises
RECURSIVE ProcessRowsAbortOnError(_, _, _, _, _, _)
ProcessRowsAbortOnError(df, i, existing_candles, table, updated_count, fault) ==
    IF i > Len(df) THEN [table |-> table, updated_count |-> updated_count]
    ELSE
      LET row == df[i]
      IN  IF row.datetime \in DOMAIN existing_candles
          THEN IF NeedsUpdate(existing_candles[row.datetime], row.is_completed)
               THEN IF fault.write = i
                    THEN [table |-> table, updated_count |-> updated_count]
                    ELSE ProcessRowsAbortOnError(df, i + 1, existing_candles,
                                     SqlUpdate(table, row),
                                     updated_count + 1, fault)
               ELSE ProcessRowsAbortOnError(df, i + 1, existing_candles, table,
                                updated_count, fault)
          ELSE LET ins == IF fault.write = i
                          THEN [ok |-> FALSE, table |-> table]
                          ELSE SqlInsert(table, row)
               IN  IF ins.ok
                   THEN ProcessRowsAbortOnError(df, i + 1, existing_candles,
                                                ins.table, updated_count + 1,
                                                fault)
                   ELSE [table |-> table, updated_count |-> updated_count]

\* the loop of lines 268-318 from row i on: the table and updated_count
RECURSIVE ProcessRows(_, _, _, _, _, _)
ProcessRows(df, i, existing_candles, table, updated_count, fault) ==
    IF i > Len(df) THEN [table |-> table, updated_count |-> updated_count]
    ELSE
      LET row == df[i]
      IN  IF row.datetime \in DOMAIN existing_candles
          THEN IF NeedsUpdate(existing_candles[row.datetime], row.is_completed)
               THEN IF fault.write = i
                    THEN ProcessRows(df, i + 1, existing_candles, table,
                                     updated_count, fault)
                    ELSE ProcessRows(df, i + 1, existing_candles,
                                     SqlUpdate(table, row),
                                     updated_count + 1, fault)
               ELSE ProcessRows(df, i + 1, existing_candles, table,
                                updated_count, fault)
          ELSE LET ins == IF fault.write = i
                          THEN [ok |-> FALSE, table |-> table]
                          ELSE SqlInsert(table, row)
               IN  ProcessRows(df, i + 1, existing_candles, ins.table,
                               IF ins.ok THEN updated_count + 1
                               ELSE updated_count, fault)

\* lines 227-229 dropped: the result of symbol_select is not looked at
SourceFailedIgnoringSelect(src) == src.none \/ Len(src.rates) = 0

\* lines 227-235: the symbol cannot be selected, or no rates came back
SourceFailed(src) == ~src.select \/ src.none \/ Len(src.rates) = 0

\* update_database(conn, symbol, timeframe_const, timeframe_str): the value
\* returned (or the exception raised) and the database it leaves
update_database(db, symbol, timeframe_str, src, current_time, fault) ==
    LET table == db[<<symbol, timeframe_str>>]
        zero  == [raised |-> FALSE, ret |-> 0, db |-> db]
    IN  IF SourceFailed(src) THEN zero
        ELSE IF is_candle_complete(current_time, src.rates[1].time,
                                   timeframe_str).kind = "ValueError"
        THEN [raised |-> TRUE, ret |-> 0, db |-> db]
        ELSE LET sel == SelectExisting(table, fault)
             IN  IF ~sel.ok THEN zero
                 ELSE LET df == [i \in 1..Len(src.rates) |->
                                   DfRow(src.rates[i], current_time,
                                         timeframe_str)]
                          r  == ProcessRows(df, 1, sel.candles, table, 0, fault)
                      IN  [raised |-> FALSE, ret |-> r.updated_count,
                           db |-> [db EXCEPT ![<<symbol, timeframe_str>>] =
                                                r.table]]

(***************************************************************************)
(* AutoTrader/main.py save_to_database                                     *)
(***************************************************************************)
\* the row the backfill's INSERT stores: is_completed is not named, so a
\* table that has the column takes its DEFAULT 1
BackfillRow(bar, schema) ==
    IF schema = "live"
    THEN [datetime |-> Strftime(bar.time), time |-> bar.time,
          close |-> bar.close, is_completed |-> 1]
    ELSE [datetime |-> Strftime(bar.time), time |-> bar.time,
          close |-> bar.close]

\* the loop of lines 261-280 as an INSERT OR REPLACE of every row
RECURSIVE InsertRowsUpsert(_, _, _, _, _, _)
InsertRowsUpsert(df, i, existing_datetimes, table, inserted_rows, fault) ==
    IF i > Len(df) THEN [table |-> table, inserted_rows |-> inserted_rows]
    ELSE
      LET row == BackfillRow(df[i], table.schema)
      IN  IF fault.write = i
          THEN InsertRowsUpsert(df, i + 1, existing_datetimes, table,
                                inserted_rows, fault)
          ELSE IF RowsAt(table, row.datetime) # {}
          THEN InsertRowsUpsert(df, i + 1, existing_datetimes,
                                SqlUpdate(table, row), inserted_rows, fault)
          ELSE InsertRowsUpsert(df, i + 1, existing_datetimes,
                                SqlInsert(table, row).table,
                                inserted_rows + 1, fault)

\* the loop of lines 261-280 from row i on: the table and inserted_rows
RECURSIVE InsertRows(_, _, _, _, _, _)
InsertRows(df, i, existing_datetimes, table, inserted_rows, fault) ==
    IF i > Len(df) THEN [table |-> table, inserted_rows |-> inserted_rows]
    ELSE
      LET row == BackfillRow(df[i], table.schema)
      IN  IF row.datetime \notin existing_datetimes
          THEN LET ins == IF fault.write = i
                          THEN [ok |-> FALSE, table |-> table]
                          ELSE SqlInsert(table, row)
               IN  InsertRows(df, i + 1, existing_datetimes, ins.table,
                              IF ins.ok THEN inserted_rows + 1
                              ELSE inserted_rows, fault)
          ELSE InsertRows(df, i + 1, existing_datetimes, table,
                          inserted_rows, fault)

\* line 204 dropped: every row is kept
DropNone(data) == data

\* df.iloc[:-1]: every row but the last
DropLast(data) == SubSeq(data, 1, Len(data) - 1)

\* save_to_database(conn, symbol, timeframe, timeframe_str, data): the pair
\* (total_rows, inserted_rows) and the database it leaves
save_to_database(db, symbol, timeframe_str, data, fault) ==
    LET zero == [total_rows |-> 0, inserted_rows |-> 0, db |-> db]
    IN  IF Len(data) = 0 THEN zero
        ELSE LET df == DropLast(data)
             IN  IF Len(df) = 0 THEN zero
                 ELSE LET old   == db[<<symbol, timeframe_str>>]
                          table == IF old.schema = "none" THEN BackfillTable
                                   ELSE old
                          existing_datetimes ==
                              IF fault.read THEN {} ELSE ExistingDatetimes(table)
                          r == InsertRows(df, 1, existing_datetimes, table, 0,
                                          fault)
                      IN  [total_rows |-> Len(df),
                           inserted_rows |-> r.inserted_rows,
                           db |-> [db EXCEPT ![<<symbol, timeframe_str>>] =
                                                r.table]]

(***************************************************************************)
(* The store under both writers.                                           *)
(***************************************************************************)
NoCall == [fn |-> "none"]

NoOp == [op |-> "idle"]

\* live_updater.main is not running
NoMain == [pc |-> "none"]

\* the database after init_database of the program that opened it first
Init ==
    /\ store \in {[s \in Series |-> LiveTable], [s \in Series |-> BackfillTable]}
    /\ last = NoOp
    /\ call = NoCall
    /\ running = TRUE
    /\ main = NoMain
    /\ now = 0
    /\ writers = << >>

\* one reconcile of one pair by the live updater's loop
UpdateDatabase ==
    /\ last = NoOp
    /\ \E symbol \in Symbols, timeframe_str \in Timeframes, src \in SourceReplies :
      \E current_time \in (IF SourceFailed(src) THEN {0} ELSE RefTimes),
         fault \in (IF SourceFailed(src) THEN {NoFault}
                    ELSE Faults(Len(src.rates))) :
        LET r == update_database(store, symbol, timeframe_str, src,
                                 current_time, fault)
        IN  /\ store' = r.db
            /\ last' = [op |-> "update_database", symbol |-> symbol,
                        timeframe_str |-> timeframe_str, src |-> src,
                        current_time |-> current_time, fault |-> fault,
                        raised |-> r.raised, ret |-> r.ret, pre |-> store,
                        repeat |-> FALSE]
            /\ UNCHANGED <<call, running, main, now, writers>>

\* the next cycle's reconcile of the same pair when the source is unchanged:
\* the same window comes back, the wall clock has not gone back, and neither
\* this call nor the one before meets a store error
UpdateDatabaseAgain ==
    /\ last.op = "update_database"
    /\ ~last.repeat
    /\ ~SourceFailed(last.src)
    /\ ~last.raised
    /\ last.fault = NoFault
    /\ SelectCompletedOk(store[<<last.symbol, last.timeframe_str>>])
    /\ \E current_time \in {t \in RefTimes : t >= last.current_time} :
        LET r == update_database(store, last.symbol, last.timeframe_str,
                                 last.src, current_time, NoFault)
        IN  /\ store' = r.db
            /\ last' = [last EXCEPT !.current_time = current_time,
                          !.raised = r.raised, !.ret = r.ret, !.pre = store,
                          !.repeat = TRUE]
            /\ UNCHANGED <<call, running, main, now, writers>>

\* one save of one pair by the backfill
SaveToDatabase ==
    /\ last = NoOp
    /\ \E symbol \in Symbols, timeframe_str \in Timeframes,
       data \in Windows(MaxWindow) :
      \E fault \in (IF Len(data) > 1 THEN Faults(Len(data) - 1) ELSE {NoFault}) :
        LET r == save_to_database(store, symbol, timeframe_str, data, fault)
        IN  /\ store' = r.db
            /\ last' = [op |-> "save_to_database", symbol |-> symbol,
                        timeframe_str |-> timeframe_str, data |-> data,
                        fault |-> fault, total_rows |-> r.total_rows,
                        inserted_rows |-> r.inserted_rows, pre |-> store]
            /\ UNCHANGED <<call, running, main, now, writers>>

\* the caller takes the returned value (total_updates += updates;
\* total_inserted += inserted) and the call's locals are gone
ResultTaken ==
    /\ last.op \in {"update_database", "save_to_database"}
    /\ last' = NoOp
    /\ UNCHANGED <<store, call, running, main, now, writers>>

Next == UpdateDatabase \/ UpdateDatabaseAgain \/ SaveToDatabase \/ ResultTaken

Spec == Init /\ [][Next]_vars

(***************************************************************************)
(* The pure functions of the catalog, the oracle and the interval, each    *)
(* applied once to arguments drawn at the start.                           *)
(***************************************************************************)
\* labels outside timeframe_dict
OtherLabels == { <<"M", "7">>, <<"H", "5">>, <<"D", "2">>, <<"X", "1">>, <<"M">> }

\* the seconds the catalog's labels stand for: minutes, hours, a day, a
\* week, a month of 30 days
LabelSeconds(label) ==
    IF label = TF_MN1 THEN 2592000 ELSE get_timeframe_seconds(label).val

\* reference times around the close of a bar opened at t
Around(t, label) ==
    IF label \in CatalogLabels
    THEN {t + LabelSeconds(label) + d : d \in {-1, 0, 1}} \cup {t}
    ELSE {t} \cup RefTimes

\* non-empty lists of at most n catalog labels
TimeframeLists(n) == UNION {[1..k -> CatalogLabels] : k \in 1..n}

FnCalls ==
    UNION {
      {[fn |-> "is_candle_complete", done |-> FALSE, timeframe_str |-> lt[1],
        candle_time |-> lt[2], current_time |-> r, timeframes |-> <<>>,
        result |-> [kind |-> "pending", val |-> 0]] : r \in Around(lt[2], lt[1])} :
      lt \in (CatalogLabels \cup OtherLabels) \X OpenTimes}
    \cup
    {[fn |-> "get_timeframe_seconds", done |-> FALSE, timeframe_str |-> l,
      candle_time |-> 0, current_time |-> 0, timeframes |-> <<>>,
      result |-> [kind |-> "pending", val |-> 0]] :
        l \in CatalogLabels \cup OtherLabels}
    \cup
    {[fn |-> "calculate_update_interval", done |-> FALSE, timeframe_str |-> <<>>,
      candle_time |-> 0, current_time |-> 0, timeframes |-> tfs,
      result |-> [kind |-> "pending", val |-> 0]] :
        tfs \in TimeframeLists(MaxTimeframes)}

InitFn ==
    /\ store = [s \in Series |-> LiveTable]
    /\ last = NoOp
    /\ call \in FnCalls
    /\ running = TRUE
    /\ main = NoMain
    /\ now = 0
    /\ writers = << >>

IsCandleComplete ==
    /\ call.fn = "is_candle_complete"
    /\ ~call.done
    /\ call' = [call EXCEPT !.done = TRUE,
                  !.result = is_candle_complete(call.current_time,
                                 call.candle_time, call.timeframe_str)]
    /\ UNCHANGED <<store, last, running, main, now, writers>>

CalculateUpdateInterval ==
    /\ call.fn = "calculate_update_interval"
    /\ ~call.done
    /\ call' = [call EXCEPT !.done = TRUE,
                  !.result = calculate_update_interval(call.timeframes)]
    /\ UNCHANGED <<store, last, running, main, now, writers>>

GetTimeframeSeconds ==
    /\ call.fn = "get_timeframe_seconds"
    /\ ~call.done
    /\ call' = [call EXCEPT !.done = TRUE,
                  !.result = get_timeframe_seconds(call.timeframe_str)]
    /\ UNCHANGED <<store, last, running, main, now, writers>>

NextFn == IsCandleComplete \/ CalculateUpdateInterval \/ GetTimeframeSeconds

SpecFn == InitFn /\ [][NextFn]_vars

(***************************************************************************)
(* The backfill run on a series left by the live updater or by              *)
(* init_database, once and then once more with the same download.           *)
(***************************************************************************)
\* the series the backfill can find: the empty table of either program, or
\* what one reconcile of a window of at most two bars left in a live table
SeriesStates ==
    {[s \in Series |-> LiveTable], [s \in Series |-> BackfillTable]}
    \cup {update_database([s \in Series |-> LiveTable], p[1], p[2],
                          [select |-> TRUE, none |-> FALSE, rates |-> w], r,
                          NoFault).db :
             p \in Series, w \in Windows(2) \ {<< >>}, r \in RefTimes}

InitBackfill ==
    /\ store \in SeriesStates
    /\ last = NoOp
    /\ call = NoCall
    /\ running = TRUE
    /\ main = NoMain
    /\ now = 0
    /\ writers = << >>

\* download_data and save_to_database for one pair (main, lines 371-380)
Backfill ==
    /\ last = NoOp
    /\ \E symbol \in Symbols, timeframe_str \in Timeframes,
          data \in Windows(MaxBackfill) :
      \E fault \in (IF Len(data) > 1 THEN Faults(Len(data) - 1) ELSE {NoFault}) :
        LET r == save_to_database(store, symbol, timeframe_str, data, fault)
        IN  /\ store' = r.db
            /\ last' = [op |-> "save_to_database", symbol |-> symbol,
                        timeframe_str |-> timeframe_str, data |-> data,
                        fault |-> fault, total_rows |-> r.total_rows,
                        inserted_rows |-> r.inserted_rows, pre |-> store,
                        repeat |-> FALSE, first |-> 0]
            /\ UNCHANGED <<call, running, main, now, writers>>

\* the backfill run a second time: the same download for the same pair, the
\* first run having met no failing insert
BackfillAgain ==
    /\ last.op = "save_to_database"
    /\ ~last.repeat
    /\ last.fault.write = 0
    /\ \E fault \in {NoFault, [read |-> TRUE, write |-> 0]} :
        LET r == save_to_database(store, last.symbol, last.timeframe_str,
                                  last.data, fault)
        IN  /\ store' = r.db
            /\ last' = [last EXCEPT !.fault = fault,
                          !.total_rows = r.total_rows,
                          !.inserted_rows = r.inserted_rows, !.pre = store,
                          !.repeat = TRUE, !.first = last.inserted_rows]
            /\ UNCHANGED <<call, running, main, now, writers>>

NextBackfill == Backfill \/ BackfillAgain

SpecBackfill == InitBackfill /\ [][NextBackfill]_vars

(***************************************************************************)
(* live_updater.main: startup, the update loop with update_database taken  *)
(* statement by statement, and the termination signal.  total_updates and  *)
(* start_time only feed log lines and are left out.                        *)
(***************************************************************************)
TF_M5 == <<"M", "5">>
\* a label timeframe_dict does not hold
TF_X1 == <<"X", "1">>

\* config["symbols"]
ConfigSymbols == <<"EURUSD">>

\* config["timeframes"]: lists of labels, none repeated
Configs ==
    {c \in UNION {[1..k -> {TF_M1, TF_M5, TF_X1, TF_MN1}] : k \in 1..MaxConfig} :
        \A i, j \in 1..Len(c) : c[i] = c[j] => i = j}

\* lines 368-374 from timeframe_strings[i] on: the labels the catalog knows
RECURSIVE KnownTimeframes(_, _)
KnownTimeframes(timeframe_strings, i) ==
    IF i > Len(timeframe_strings) THEN << >>
    ELSE (IF get_timeframe_constant(timeframe_strings[i]).kind # "None"
          THEN <<timeframe_strings[i]>> ELSE << >>)
         \o KnownTimeframes(timeframe_strings, i + 1)

\* the pairs in the order of the nested for loops of lines 422-423
Pairs(symbols, timeframes) ==
    [p \in 1..(Len(symbols) * Len(timeframes)) |->
        <<symbols[((p - 1) \div Len(timeframes)) + 1],
          timeframes[((p - 1) % Len(timeframes)) + 1]>>]

\* mt5.initialize, mt5.login, create_db_connection and init_database: all
\* succeed, or the first that fails (init_database by raising sqlite3.Error)
StartupReplies == {"ok", "initialize", "login", "connect", "init_database"}

\* what the source answers during the loop: the symbol cannot be selected, or
\* a window of the forming bar alone or with the bar before it
LoopReplies ==
    {[select |-> FALSE, none |-> FALSE, rates |-> << >>],
     [select |-> TRUE, none |-> FALSE,
      rates |-> <<[time |-> 160, close |-> 1]>>],
     [select |-> TRUE, none |-> FALSE,
      rates |-> <<[time |-> 160, close |-> 1], [time |-> 220, close |-> 1]>>]}

\* wall-clock readings during the loop
LoopRefTimes == {165, 225}

\* store errors of one reconcile: none, the bulk SELECT raises, the write of
\* the first row raises, or conn.commit() raises
LoopFaults ==
    {[read |-> FALSE, write |-> 0, commit |-> FALSE],
     [read |-> TRUE, write |-> 0, commit |-> FALSE],
     [read |-> FALSE, write |-> 1, commit |-> FALSE],
     [read |-> FALSE, write |-> 0, commit |-> TRUE]}

\* time.time() - update_start_time of a cycle, in hundredths of a second
ElapsedTimes == {0, 1490, 6000}

Signals == {"SIGINT", "SIGTERM"}

\* Python's default SIGINT handling: KeyboardInterrupt raised in the main thread
signal_default(sig) == [running |-> TRUE, raise |-> TRUE]

\* signal_handler(sig, frame): running = False, and the interrupted code resumes
signal_handler(sig) == [running |-> FALSE, raise |-> FALSE]

\* the loop as `while True`
WhileTrue(r) == TRUE

\* line 417: while running
WhileRunning(r) == r

\* line 439: time.sleep(0.1), whatever sleep_time line 436 computed
SleepDuration(sleep_time) == 10

NoTxn == [open |-> FALSE]

NoSig == [pc |-> "none", k |-> 0]

\* the pairs main() loops over
MainPairs == Pairs(ConfigSymbols, main.timeframes)

InitLoop ==
    /\ store = << >>
    /\ last = NoOp
    /\ call = NoCall
    /\ running = TRUE
    /\ \E c \in Configs :
         main = [pc |-> "start", timeframe_strings |-> c, timeframes |-> << >>,
                 update_interval |-> 0, i |-> 0, update_count |-> 0,
                 started |-> 0, reconciled |-> << >>, txn |-> NoTxn,
                 elapsed |-> 0, sleep_time |-> 0, slept |-> 0,
                 exit |-> "none", sig |-> NoSig,
                 conn |-> "none", mt5 |-> "down"]
    /\ now = 0
    /\ writers = << >>

\* lines 354-413: the catalog filter, the source and the store opened,
\* init_database, calculate_update_interval (outside the try of line 415)
Startup ==
    /\ main.pc = "start"
    /\ \E reply \in StartupReplies :
        LET timeframes == KnownTimeframes(main.timeframe_strings, 1)
            tables == [s \in {<<ConfigSymbols[1], timeframes[j]>> :
                                 j \in 1..Len(timeframes)} |-> LiveTable]
            update_interval == calculate_update_interval(timeframes)
        IN  IF reply \in {"initialize", "login", "connect"}
            THEN /\ main' = [main EXCEPT !.pc = "done", !.exit = "startup",
                               !.timeframes = timeframes,
                               !.mt5 = IF reply = "initialize" THEN "down"
                                       ELSE "shutdown"]
                 /\ store' = store
            ELSE IF reply = "init_database"
            THEN /\ main' = [main EXCEPT !.pc = "done",
                               !.exit = "init_database",
                               !.timeframes = timeframes,
                               !.conn = "open", !.mt5 = "up"]
                 /\ store' = store
            ELSE /\ store' = tables
                 /\ IF update_interval.kind = "ValueError"
                    THEN main' = [main EXCEPT !.pc = "done", !.exit = "crash",
                                    !.timeframes = timeframes,
                                    !.conn = "open", !.mt5 = "up"]
                    ELSE main' = [main EXCEPT !.pc = "while",
                                    !.timeframes = timeframes,
                                    !.update_interval = update_interval.val,
                                    !.conn = "open", !.mt5 = "up"]
    /\ UNCHANGED <<last, call, running, now, writers>>

\* line 417: the test of `running`, and lines 418-419 or the finally block
LoopCheck ==
    /\ main.pc = "while"
    /\ IF WhileRunning(running)
       THEN /\ main.started < MaxCycles
            /\ main' = [main EXCEPT !.pc = "for", !.i = 1,
                          !.started = @ + 1,
                          !.reconciled = [j \in DOMAIN MainPairs |-> 0],
                          !.elapsed = 0, !.sleep_time = 0, !.slept = 0]
       ELSE main' = [main EXCEPT !.pc = "done", !.exit = "cancelled",
                       !.conn = "closed", !.mt5 = "shutdown"]
    /\ UNCHANGED <<store, last, call, running, now, writers>>

\* update_database returned: line 425 and the next pair
Returned(m) ==
    [m EXCEPT !.pc = "for", !.i = @ + 1, !.reconciled[m.i] = @ + 1,
              !.txn = NoTxn]

\* an exception left the loop: lines 441-452
Raised(m) ==
    [m EXCEPT !.pc = "done", !.exit = "exception", !.txn = NoTxn,
              !.conn = "closed", !.mt5 = "shutdown"]

\* line 424 and lines 223-265 of update_database for the pair at hand: the
\* fetch, the one reading of the clock, the bulk read
ReconcileBegin ==
    /\ main.pc = "for"
    /\ main.i <= Len(MainPairs)
    /\ \E src \in LoopReplies :
        IF SourceFailed(src)
        THEN main' = Returned(main)
        ELSE \E current_time \in LoopRefTimes, fault \in LoopFaults :
               LET pair == MainPairs[main.i]
                   sel  == SelectExisting(store[pair], fault)
               IN  IF is_candle_complete(current_time, src.rates[1].time,
                                         pair[2]).kind = "ValueError"
                   THEN main' = Raised(main)
                   ELSE IF ~sel.ok THEN main' = Returned(main)
                   ELSE main' = [main EXCEPT !.pc = "rows", !.txn =
                          [open |-> TRUE, src |-> src,
                           current_time |-> current_time, fault |-> fault,
                           df |-> [j \in 1..Len(src.rates) |->
                                     DfRow(src.rates[j], current_time, pair[2])],
                           existing_candles |-> sel.candles, k |-> 0,
                           table |-> store[pair], updated_count |-> 0]]
    /\ UNCHANGED <<store, last, call, running, now, writers>>

\* one pass of the loop of lines 268-318, inside the open transaction
ReconcileRow ==
    /\ main.pc = "rows"
    /\ main.txn.k < Len(main.txn.df)
    /\ LET t == main.txn
           r == ProcessRows(SubSeq(t.df, 1, t.k + 1), t.k + 1,
                            t.existing_candles, t.table, t.updated_count,
                            t.fault)
       IN  main' = [main EXCEPT !.txn.k = @ + 1, !.txn.table = r.table,
                                !.txn.updated_count = r.updated_count]
    /\ UNCHANGED <<store, last, call, running, now, writers>>

\* line 320: conn.commit() publishes the rows, or raises and the connection
\* is closed on the uncommitted transaction
ReconcileCommit ==
    /\ main.pc = "rows"
    /\ main.txn.k = Len(main.txn.df)
    /\ IF main.txn.fault.commit
       THEN /\ main' = Raised(main)
            /\ store' = store
       ELSE /\ main' = Returned(main)
            /\ store' = [store EXCEPT ![MainPairs[main.i]] = main.txn.table]
    /\ UNCHANGED <<last, call, running, now, writers>>

\* lines 427-438: the cycle is counted and timed, sleep_time computed
CycleEnd ==
    /\ main.pc = "for"
    /\ main.i > Len(MainPairs)
    /\ \E elapsed \in ElapsedTimes :
         main' = [main EXCEPT !.pc = "sleep", !.update_count = @ + 1,
                    !.elapsed = elapsed,
                    !.sleep_time = Max(5, main.update_interval - elapsed)]
    /\ UNCHANGED <<store, last, call, running, now, writers>>

\* line 439
Sleep ==
    /\ main.pc = "sleep"
    /\ main' = [main EXCEPT !.pc = "while",
                  !.slept = SleepDuration(main.sleep_time)]
    /\ UNCHANGED <<store, last, call, running, now, writers>>

\* SIGINT or SIGTERM delivered to the process for the first time, wherever
\* main() stands
Signal ==
    /\ main.pc # "done"
    /\ main.sig = NoSig
    /\ \E sig \in Signals :
        LET h == signal_handler(sig)
            at == [pc |-> main.pc,
                   k |-> IF main.pc = "rows" THEN main.txn.k ELSE 0]
        IN  /\ running' = h.running
            /\ main' = IF h.raise THEN [Raised(main) EXCEPT !.sig = at]
                       ELSE [main EXCEPT !.sig = at]
    /\ UNCHANGED <<store, last, call, now, writers>>

\* the steps of main()
MainStep ==
    \/ Startup
    \/ LoopCheck
    \/ ReconcileBegin
    \/ ReconcileRow
    \/ ReconcileCommit
    \/ CycleEnd
    \/ Sleep

NextLoop == MainStep \/ Signal

SpecLoop == InitLoop /\ [][NextLoop]_vars

\* main() is the only thread of its process and every call it makes returns
SpecLoopLive == SpecLoop /\ WF_vars(MainStep)

(***************************************************************************)
(* The live updater's cycles of one pair under a wall clock that advances: *)
(* each reconcile captures the clock's reading as its reference time.      *)
(***************************************************************************)
InitClock ==
    /\ store = [s \in Series |-> LiveTable]
    /\ last = NoOp
    /\ call = NoCall
    /\ running = TRUE
    /\ main = NoMain
    /\ now = CHOOSE t \in RefTimes : \A u \in RefTimes : t <= u
    /\ writers = << >>

\* the wall clock moves on to its next reading
Tick ==
    /\ \E t \in RefTimes : t > now
    /\ now' = CHOOSE t \in RefTimes :
                 t > now /\ \A u \in RefTimes : u > now => t <= u
    /\ UNCHANGED <<store, last, call, running, main, writers>>

\* one cycle's reconcile of the pair (main, lines 422-425), its reference
\* time read from the wall clock (update_database, line 243)
CycleReconcile ==
    /\ last = NoOp
    /\ \E symbol \in Symbols, timeframe_str \in Timeframes, src \in SourceReplies :
      \E fault \in (IF SourceFailed(src) THEN {NoFault}
                    ELSE Faults(Len(src.rates))) :
        LET r == update_database(store, symbol, timeframe_str, src, now, fault)
        IN  /\ store' = r.db
            /\ last' = [op |-> "update_database", symbol |-> symbol,
                        timeframe_str |-> timeframe_str, src |-> src,
                        current_time |-> now, fault |-> fault,
                        raised |-> r.raised, ret |-> r.ret, pre |-> store,
                        repeat |-> FALSE]
            /\ UNCHANGED <<call, running, main, now, writers>>

NextClock == Tick \/ CycleReconcile \/ ResultTaken

SpecClock == InitClock /\ [][NextClock]_vars

\* the clock advances, and every call of update_database returns to the
\* loop of main()
SpecClockLive ==
    /\ SpecClock
    /\ WF_vars(Tick)
    /\ WF_vars(ResultTaken)

(***************************************************************************)
(* api_server.py: one GET /candles request against a stored series.        *)
(***************************************************************************)
\* the table does not exist
NoTable == [schema |-> "none", rows |-> EmptyBag]

\* SQLite's comparison of two TEXT values: position by position, a proper
\* prefix before the longer string
TextLeq(a, b) ==
    \/ /\ Len(a) <= Len(b)
       /\ \A i \in 1..Len(a) : a[i] = b[i]
    \/ \E i \in 1..Min(Len(a), Len(b)) :
         /\ a[i] < b[i]
         /\ \A j \in 1..(i - 1) : a[j] = b[j]

\* ORDER BY time DESC
RECURSIVE OrderByTimeDesc(_)
OrderByTimeDesc(rows) ==
    IF rows = {} THEN << >>
    ELSE LET first == CHOOSE r \in rows : \A q \in rows : r.time >= q.time
         IN  <<first>> \o OrderByTimeDesc(rows \ {first})

\* lines 217-228: the conditions of the WHERE clause; a parameter that is
\* None or the empty string adds none
Where(rows, start_time, end_time, completed_only) ==
    {r \in rows :
       /\ start_time # << >> => TextLeq(start_time, r.datetime)
       /\ end_time # << >> => TextLeq(r.datetime, end_time)
       /\ completed_only => r.is_completed = 1}

\* LIMIT ?: the first rows up to the limit, every row when it is negative
SqlLimit(rows, limit) ==
    IF limit < 0 \/ limit >= Len(rows) THEN rows ELSE SubSeq(rows, 1, limit)

\* get_candles: the status of the response and the candles of its body.
\* 404 when the table is missing; 500 when SQLite raises (no is_completed
\* column to filter on) or when a returned row lacks a field of CandleData
get_candles(db, symbol, timeframe, start_time, end_time, limit, completed_only) ==
    LET table == IF <<symbol, timeframe>> \in DOMAIN db
                 THEN db[<<symbol, timeframe>>] ELSE NoTable
        error(status) == [status |-> status, body |-> << >>]
    IN  IF table.schema = "none" THEN error(404)
        ELSE IF completed_only /\ table.schema # "live" THEN error(500)
        ELSE LET rows == SqlLimit(OrderByTimeDesc(
                             Where(BagToSet(table.rows), start_time, end_time,
                                   completed_only)), limit)
             IN  IF table.schema # "live" /\ Len(rows) > 0 THEN error(500)
                 ELSE [status |-> 200, body |-> rows]

\* the start_time and end_time of a request: absent, or the datetime string
\* of one of the open times
RequestTimes == {[given |-> FALSE, t |-> 0]} \cup [given : {TRUE}, t : OpenTimes]

TimeParam(p) == IF p.given THEN Strftime(p.t) ELSE << >>

\* the limit of a request: le=100000 is the only constraint of the Query
Limits == (-1)..MaxLimit

\* the databases a request can find: no table, the empty table of either
\* program, what one reconcile left in a live table, what one backfill left
\* in a table of its own or of the live updater
ApiStores ==
    { << >>, [s \in Series |-> LiveTable], [s \in Series |-> BackfillTable] }
    \cup {update_database([s \in Series |-> LiveTable], p[1], p[2],
                          [select |-> TRUE, none |-> FALSE, rates |-> w], r,
                          NoFault).db :
             p \in Series, w \in Windows(MaxBackfill) \ {<< >>}, r \in RefTimes}
    \cup {save_to_database([s \in Series |-> t], p[1], p[2], w, NoFault).db :
             p \in Series, w \in Windows(MaxBackfill),
             t \in {LiveTable, BackfillTable}}

InitApi ==
    /\ store \in ApiStores
    /\ last = NoOp
    /\ call = NoCall
    /\ running = TRUE
    /\ main = NoMain
    /\ now = 0
    /\ writers = << >>

\* GET /candles
GetCandles ==
    /\ last = NoOp
    /\ \E symbol \in Symbols, timeframe \in Timeframes,
          start \in RequestTimes, end \in RequestTimes,
          limit \in Limits, completed_only \in BOOLEAN :
        LET r == get_candles(store, symbol, timeframe, TimeParam(start),
                             TimeParam(end), limit, completed_only)
        IN  last' = [op |-> "get_candles", symbol |-> symbol,
                     timeframe_str |-> timeframe, start |-> start, end |-> end,
                     limit |-> limit, completed_only |-> completed_only,
                     status |-> r.status, body |-> r.body]
    /\ UNCHANGED <<store, call, running, main, now, writers>>

\* the response is sent and the request's locals are gone
ResponseSent ==
    /\ last.op = "get_candles"
    /\ last' = NoOp
    /\ UNCHANGED <<store, call, running, main, now, writers>>

NextApi == GetCandles \/ ResponseSent

SpecApi == InitApi /\ [][NextApi]_vars

(***************************************************************************)
(* Two writers of one series, each a process with a connection of its own  *)
(* to the database file: the rows a connection has written are seen by the *)
(* other only after the commit, and one connection at a time holds the     *)
(* write lock of the file.                                                 *)
(***************************************************************************)
WriterIds == 1..2

TheOther(w) == 3 - w

\* the series both writers work on
Shared == CHOOSE s \in Series : TRUE

\* the bars writer w downloaded: values as w saw them at the source
WriterBars(w) == [time : OpenTimes, close : {w}]

WriterWindows(w, n) == UNION {[1..k -> WriterBars(w)] : k \in 0..n}

\* a writer about to run update_database (live) or save_to_database
\* (backfill) on its download
Writers ==
    {[kind |-> "live", pc |-> "start",
      df |-> [j \in 1..Len(rates) |-> DfRow(rates[j], current_time, Shared[2])],
      existing_candles |-> << >>, existing_datetimes |-> {}, k |-> 0,
      count |-> 0, lock |-> FALSE, table |-> NoTable, log |-> << >>] :
        rates \in WriterWindows(1, MaxWindow) \ {<< >>},
        current_time \in LoopRefTimes}
    \cup
    {[kind |-> "backfill", pc |-> "start", df |-> DropLast(data),
      existing_candles |-> << >>, existing_datetimes |-> {}, k |-> 0,
      count |-> 0, lock |-> FALSE, table |-> NoTable, log |-> << >>] :
        data \in WriterWindows(2, MaxWindow + 1) \ {<< >>}}

InitWriters ==
    /\ store \in {[s \in Series |-> LiveTable], [s \in Series |-> BackfillTable]}
    /\ last = NoOp
    /\ call = NoCall
    /\ running = TRUE
    /\ main = NoMain
    /\ now = 0
    /\ writers \in [WriterIds -> Writers]

\* cursor.execute of the bulk SELECT (live_updater 257, main.py 253): the
\* committed rows are read; the live updater returns 0 when it raises
ReadExecute(w) ==
    /\ writers[w].pc = "start"
    /\ IF writers[w].kind = "live"
       THEN LET sel == SelectExisting(store[Shared], NoFault)
            IN  writers' = [writers EXCEPT ![w].pc =
                               IF sel.ok THEN "reading" ELSE "done",
                               ![w].existing_candles = sel.candles]
       ELSE writers' = [writers EXCEPT ![w].pc =
                           IF Len(writers[w].df) = 0 THEN "done" ELSE "reading",
                           ![w].existing_datetimes =
                               IF Len(writers[w].df) = 0 THEN {}
                               ELSE ExistingDatetimes(store[Shared])]
    /\ UNCHANGED <<store, last, call, running, main, now>>

\* cursor.fetchall() (live_updater 258, main.py 254): the read ends and the
\* connection no longer holds the file's shared lock
ReadFetch(w) ==
    /\ writers[w].pc = "reading"
    /\ writers' = [writers EXCEPT ![w].pc = "rows"]
    /\ UNCHANGED <<store, last, call, running, main, now>>

\* the statement the next pass of the row loop executes
Statement(w) ==
    LET me  == writers[w]
        row == me.df[me.k + 1]
        dt  == Strftime(row.time)
    IN  IF me.kind = "live"
        THEN IF dt \in DOMAIN me.existing_candles
             THEN IF NeedsUpdate(me.existing_candles[dt], row.is_completed)
                  THEN "update" ELSE "none"
             ELSE "insert"
        ELSE IF dt \notin me.existing_datetimes THEN "insert" ELSE "none"

\* connections that write without taking the file's write lock
NeverLockedOut(w) == FALSE

\* the statement of writer w's next pass finds the write lock of the file
\* held by the other connection
LockedOut(w) == Statement(w) # "none" /\ writers[TheOther(w)].lock

\* one pass of the row loop (live_updater 268-318, main.py 261-280).  A
\* statement executed while the other connection holds the write lock raises
\* "database is locked" once the busy timeout is over (waiting for the other's
\* commit instead is this step taken later); otherwise the statement takes
\* the write lock and keeps it, also when it raises on the UNIQUE constraint
WriteRow(w) ==
    /\ writers[w].pc = "rows"
    /\ writers[w].k < Len(writers[w].df)
    /\ LET me     == writers[w]
           other  == writers[TheOther(w)]
           i      == me.k + 1
           locked == LockedOut(w)
           base   == IF me.lock THEN me.table ELSE store[Shared]
           fault  == IF locked THEN [read |-> FALSE, write |-> i] ELSE NoFault
           r      == IF me.kind = "live"
                     THEN LET p == ProcessRows(SubSeq(me.df, 1, i), i,
                                       me.existing_candles, base, me.count, fault)
                          IN  [table |-> p.table, count |-> p.updated_count]
                     ELSE LET p == InsertRows(SubSeq(me.df, 1, i), i,
                                       me.existing_datetimes, base, me.count, fault)
                          IN  [table |-> p.table, count |-> p.inserted_rows]
           lock   == me.lock \/ (Statement(w) # "none" /\ ~locked)
           seen   == IF other.lock THEN other.table ELSE store[Shared]
       IN  writers' = [writers EXCEPT
              ![w].k = i,
              ![w].count = r.count,
              ![w].lock = lock,
              ![w].table = IF lock THEN r.table ELSE NoTable,
              ![w].log = Append(@,
                  [statement |-> Statement(w),
                   ok |-> r.count > me.count,
                   second |-> Statement(w) = "insert"
                              /\ RowsAt(seen, Strftime(me.df[i].time)) # {}])]
    /\ UNCHANGED <<store, last, call, running, main, now>>

\* conn.commit() (live_updater 320, main.py 282), outside any try: it
\* publishes the rows written, or raises "database is locked" when the
\* other connection stays in its read for the whole busy timeout (waiting
\* for the read to end instead is this step taken later)
Commit(w) ==
    /\ writers[w].pc = "rows"
    /\ writers[w].k = Len(writers[w].df)
    /\ IF writers[w].lock /\ writers[TheOther(w)].pc = "reading"
       THEN /\ writers' = [writers EXCEPT ![w].pc = "raised",
                             ![w].lock = FALSE, ![w].table = NoTable]
            /\ store' = store
       ELSE /\ writers' = [writers EXCEPT ![w].pc = "done",
                             ![w].lock = FALSE, ![w].table = NoTable]
            /\ store' = IF writers[w].lock
                        THEN [store EXCEPT ![Shared] = writers[w].table]
                        ELSE store
    /\ UNCHANGED <<last, call, running, main, now>>

NextWriters ==
    \E w \in WriterIds :
      ReadExecute(w) \/ ReadFetch(w) \/ WriteRow(w) \/ Commit(w)

SpecWriters == InitWriters /\ [][NextWriters]_vars

(***************************************************************************)
(* What the last call was given and what it left.                          *)
(***************************************************************************)
Reconciled == last.op = "update_database"

LastSeries == <<last.symbol, last.timeframe_str>>

\* the series before and after the last call
Pre == last.pre[LastSeries]

Post == store[LastSeries]

\* the fetched window of the last reconcile
W == last.src.rates

\* the source delivered a non-empty window
Fetched == last.src.select /\ ~last.src.none /\ Len(last.src.rates) > 0

\* the last reconcile read the persisted set
ReadOk ==
    /\ Reconciled /\ Fetched /\ ~last.raised
    /\ ~last.fault.read /\ Pre.schema = "live"

\* the period G of the reconciled series
G == LabelSeconds(last.timeframe_str)

\* the flag a bar opened at t gets at reference time r
FreshAt(r, t) == IF r >= t + G THEN 1 ELSE 0

Fresh(t) == FreshAt(last.current_time, t)

RowsOf(table, t) == {r \in BagToSet(table.rows) : r.time = t}

InPre(t) == RowsOf(Pre, t) # {}

PreFlag(t) == (CHOOSE r \in RowsOf(Pre, t) : TRUE).is_completed

\* the row a fetched bar is written as
RowOf(bar) ==
    [datetime |-> Strftime(bar.time), time |-> bar.time, close |-> bar.close,
     is_completed |-> Fresh(bar.time)]

WriteOk(i) == last.fault.write # i

\* position i of the window is inserted: absent before the call, its write
\* not failing, and no earlier position of the same open time inserted
Inserted(i) ==
    /\ ~InPre(W[i].time)
    /\ WriteOk(i)
    /\ \A j \in 1..(i - 1) : W[j].time = W[i].time => ~WriteOk(j)

\* position i of the window is updated in place
Updated(i) ==
    /\ InPre(W[i].time)
    /\ (PreFlag(W[i].time) = 0 \/ PreFlag(W[i].time) # Fresh(W[i].time))
    /\ WriteOk(i)

SetMin(S) == CHOOSE x \in S : \A y \in S : x <= y

SetMax(S) == CHOOSE x \in S : \A y \in S : x >= y

(***************************************************************************)
(* C1                                                                      *)
(***************************************************************************)
\* the last reconcile was the second in succession of one fetched window
SecondCall == Reconciled /\ last.repeat

\* C1 as stated: reconciling the same fetched window a second time returns
\* updatedCount = 0, also when the window holds a bar that is still incomplete
C1_Original == SecondCall => last.ret = 0

\* C1 as amended: the second reconcile of the same window returns one update
\* for every bar of the window that the first left stored incomplete or whose
\* completion flag changes at the second reference time, and so returns 0
\* exactly when every bar of the window is stored complete and stays complete
C1_SecondCallCount ==
    SecondCall =>
      /\ ~last.raised
      /\ \A i \in 1..Len(W) : InPre(W[i].time)
      /\ last.ret =
           Cardinality({i \in 1..Len(W) :
              PreFlag(W[i].time) = 0 \/ PreFlag(W[i].time) # Fresh(W[i].time)})

\* the second reconcile of a window holding a closed bar and a bar incomplete
\* at both reference times has returned one update
C1_Witness ==
    /\ SecondCall
    /\ Len(W) = 2
    /\ PreFlag(W[1].time) = 1 /\ Fresh(W[1].time) = 1
    /\ PreFlag(W[2].time) = 0 /\ Fresh(W[2].time) = 0
    /\ last.ret = 1

(***************************************************************************)
(* C2                                                                      *)
(***************************************************************************)
\* C2: no two stored rows of one series share the same openTime
C2_Uniqueness ==
    \A s \in Series :
      \A r1 \in BagToSet(store[s].rows) :
        /\ CopiesIn(r1, store[s].rows) = 1
        /\ \A r2 \in BagToSet(store[s].rows) : r1.time = r2.time => r1 = r2

\* a window holding the same openTime twice, absent from the store, was
\* reconciled: one row was inserted and the second insert refused
C2_Witness ==
    /\ ReadOk
    /\ last.fault = NoFault
    /\ Len(W) = 2
    /\ W[1].time = W[2].time
    /\ W[1].close # W[2].close
    /\ ~InPre(W[1].time)
    /\ last.ret = 1
    /\ Cardinality(RowsOf(Post, W[1].time)) = 1

(***************************************************************************)
(* C3                                                                      *)
(***************************************************************************)
\* C3 as stated: whatever reference time a reconcile captures, a bar stored
\* with isCompleted = true is not set back to false
C3_Original ==
    (Reconciled /\ Pre.schema = "live") =>
      \A r \in BagToSet(Pre.rows) :
        r.is_completed = 1 =>
          \A q \in RowsOf(Post, r.time) : q.is_completed = 1

\* C3 as amended: a bar stored with isCompleted = true is not set back to
\* false by a reconcile whose reference time is at or after the bar's close
\* (openTime + G); a reconcile that reads an earlier wall-clock time rewrites
\* it as incomplete
C3_CompletionMonotonicity ==
    (Reconciled /\ Pre.schema = "live") =>
      \A r \in BagToSet(Pre.rows) :
        (r.is_completed = 1 /\ last.current_time >= r.time + G) =>
          /\ RowsOf(Post, r.time) # {}
          /\ \A q \in RowsOf(Post, r.time) : q.is_completed = 1

\* a reconcile at a reference time past the close of a bar stored complete
\* fetched that bar again, with other values
C3_Witness ==
    /\ ReadOk
    /\ \E i \in 1..Len(W) :
         /\ InPre(W[i].time)
         /\ PreFlag(W[i].time) = 1
         /\ last.current_time >= W[i].time + G
         /\ \E r \in RowsOf(Pre, W[i].time) : r.close # W[i].close
         /\ WriteOk(i)

(***************************************************************************)
(* C5                                                                      *)
(***************************************************************************)
\* the rows a reconcile that read the persisted set leaves at open time t:
\* the first inserted position's row, else the last updated position's row,
\* else what was stored
RowsAfter(t) ==
    LET ins == {i \in 1..Len(W) : W[i].time = t /\ Inserted(i)}
        upd == {i \in 1..Len(W) : W[i].time = t /\ Updated(i)}
    IN  IF ins # {} THEN {RowOf(W[SetMin(ins)])}
        ELSE IF upd # {} THEN {RowOf(W[SetMax(upd)])}
        ELSE RowsOf(Pre, t)

\* C5: each bar of the window is inserted when its openTime is absent from
\* the persisted set read at the start, rewritten in every field when it is
\* present and the persisted flag is false or differs from the fresh one, and
\* otherwise left alone; updatedCount is the number of inserts and updates
\* that were applied
C5_DecisionRuleAndCount ==
    ReadOk =>
      /\ last.ret = Cardinality({i \in 1..Len(W) : Inserted(i) \/ Updated(i)})
      /\ \A t \in OpenTimes : RowsOf(Post, t) = RowsAfter(t)
      /\ \A r \in BagToSet(Post.rows) : CopiesIn(r, Post.rows) = 1

\* one reconcile rewrote a stored bar and left another bar of its window
\* alone: the count is below the size of the window
C5_Witness ==
    /\ ReadOk
    /\ \E i \in 1..Len(W) : Updated(i)
    /\ \E i \in 1..Len(W) : ~Inserted(i) /\ ~Updated(i)
    /\ last.ret = 1
    /\ last.ret < Len(W)

(***************************************************************************)
(* C6                                                                      *)
(***************************************************************************)
\* the bar at position i of the window is stored complete and is complete
\* at the reference time
Frozen(i) ==
    /\ InPre(W[i].time)
    /\ PreFlag(W[i].time) = 1
    /\ Fresh(W[i].time) = 1

\* C6: a stored bar with isCompleted = true whose fresh flag is also true is
\* left unchanged in every field, whatever values are fetched for it, and is
\* not counted; a window of such bars only returns 0 and changes nothing
C6_FrozenCompletedBars ==
    ReadOk =>
      /\ \A i \in 1..Len(W) :
           Frozen(i) => RowsOf(Post, W[i].time) = RowsOf(Pre, W[i].time)
      /\ last.ret <= Cardinality({i \in 1..Len(W) : ~Frozen(i)})
      /\ (\A i \in 1..Len(W) : Frozen(i)) => (last.ret = 0 /\ store = last.pre)

\* a window of bars all stored complete and complete at the reference time,
\* one of them fetched with other values than the stored ones
C6_Witness ==
    /\ ReadOk
    /\ last.fault = NoFault
    /\ Len(W) = 2
    /\ W[1].time # W[2].time
    /\ \A i \in 1..Len(W) : Frozen(i)
    /\ \E i \in 1..Len(W) : \E r \in RowsOf(Pre, W[i].time) : r.close # W[i].close
    /\ last.ret = 0

(***************************************************************************)
(* C7                                                                      *)
(***************************************************************************)
\* every store read and write of the last reconcile succeeded
AllWritesOk ==
    /\ ReadOk
    /\ last.fault = NoFault
    /\ \A i, j \in 1..Len(W) : W[i].time = W[j].time => i = j

\* C7: after a reconcile at reference time R whose store reads and writes all
\* succeed, every bar of the window is stored with isCompleted = (R >=
\* openTime + G), and every window bar stored incomplete, or stored incomplete
\* before the call, holds the values just fetched
C7_StoreTracksSource ==
    AllWritesOk =>
      \A i \in 1..Len(W) :
        /\ Cardinality(RowsOf(Post, W[i].time)) = 1
        /\ \A q \in RowsOf(Post, W[i].time) :
             /\ q.is_completed = Fresh(W[i].time)
             /\ q.datetime = Strftime(W[i].time)
             /\ (q.is_completed = 0 \/ (InPre(W[i].time) /\ PreFlag(W[i].time) = 0))
                  => q.close = W[i].close

\* a reconcile closed a bar stored incomplete, taking its last values, and
\* inserted the still-forming bar
C7_Witness ==
    /\ AllWritesOk
    /\ Len(W) = 2
    /\ InPre(W[1].time) /\ PreFlag(W[1].time) = 0 /\ Fresh(W[1].time) = 1
    /\ \E r \in RowsOf(Pre, W[1].time) : r.close # W[1].close
    /\ ~InPre(W[2].time) /\ Fresh(W[2].time) = 0

(***************************************************************************)
(* C8                                                                      *)
(***************************************************************************)
Bar(t, c, flag) ==
    [datetime |-> Strftime(t), time |-> t, close |-> c, is_completed |-> flag]

\* the first cycle's call: window [100, 160] at reference time 165 on the
\* empty series
FirstCycle ==
    /\ ReadOk /\ last.fault = NoFault
    /\ Pre.rows = EmptyBag
    /\ Len(W) = 2 /\ W[1].time = 100 /\ W[2].time = 160
    /\ last.current_time = 165

\* the second cycle's call: window [160 with a changed close, 220] at
\* reference time 225 on what the first cycle left
SecondCycle ==
    /\ ReadOk /\ last.fault = NoFault
    /\ Len(W) = 2 /\ W[1].time = 160 /\ W[2].time = 220
    /\ last.current_time = 225
    /\ \E c1, c2 \in Closes :
         /\ c2 # W[1].close
         /\ Pre.rows = SetToBag({Bar(100, c1, 1), Bar(160, c2, 0)})

\* C8: on the empty series of period 60 s the window [100, 160] at time 165
\* stores bar 100 complete and bar 160 incomplete and returns 2; then the
\* window [160 changed, 220] at time 225 rewrites bar 160 (new value,
\* complete), inserts bar 220 incomplete, returns 2 and leaves bar 100 alone
C8_TwoCycleScenario ==
    /\ FirstCycle =>
         /\ G = 60
         /\ last.ret = 2
         /\ Post.rows = SetToBag({Bar(100, W[1].close, 1), Bar(160, W[2].close, 0)})
    /\ SecondCycle =>
         /\ last.ret = 2
         /\ RowsOf(Post, 100) = RowsOf(Pre, 100)
         /\ Post.rows = SetToBag(RowsOf(Pre, 100)
                                 \cup {Bar(160, W[1].close, 1), Bar(220, W[2].close, 0)})

\* the second cycle has run on the series the first cycle left
C8_Witness ==
    /\ SecondCycle
    /\ last.ret = 2
    /\ BagCardinality(Post.rows) = 3

(***************************************************************************)
(* C9                                                                      *)
(***************************************************************************)
\* C9: when the symbol cannot be selected, or the source returns no bars or
\* an empty window, reconcile returns 0 and leaves every row of every series
\* unchanged
C9_SourceUnavailable ==
    (Reconciled /\ (~last.src.select \/ last.src.none \/ Len(last.src.rates) = 0)) =>
      /\ ~last.raised
      /\ last.ret = 0
      /\ store = last.pre

\* symbol_select failed on a series that holds rows, for bars not yet stored
C9_Witness ==
    /\ Reconciled
    /\ ~last.src.select
    /\ Len(last.src.rates) > 0
    /\ Pre.rows # EmptyBag
    /\ \E i \in 1..Len(W) : ~InPre(W[i].time)
    /\ last.ret = 0

(***************************************************************************)
(* C4, C10                                                                 *)
(***************************************************************************)
\* C4: for every catalog granularity of period G, is_candle_complete(R, T,
\* label) returns true exactly when R >= T + G
C4_CompletionCorrectness ==
    (call.fn = "is_candle_complete" /\ call.done
       /\ call.timeframe_str \in CatalogLabels) =>
      /\ call.result.kind = "bool"
      /\ call.result.val =
           (call.current_time >= call.candle_time + LabelSeconds(call.timeframe_str))

\* the finest period of a list of labels
Finest(timeframes) ==
    SetMin({LabelSeconds(timeframes[i]) : i \in 1..Len(timeframes)})

\* C10: for every non-empty list of catalog granularities with finest period
\* F, calculate_update_interval returns I with 0.05 <= I <= 60 and
\* I = clamp(F/4, 0.05, 60) (hundredths of a second: 5, 6000, 25 F)
C10_IntervalBounds ==
    (call.fn = "calculate_update_interval" /\ call.done) =>
      /\ call.result.kind = "num"
      /\ 5 <= call.result.val /\ call.result.val <= 6000
      /\ call.result.val = Max(5, Min(6000, 25 * Finest(call.timeframes)))

(***************************************************************************)
(* C16                                                                     *)
(***************************************************************************)
\* the bulk read of the last reconcile raised: an injected store error, or a
\* table without the is_completed column
ReadFailed ==
    /\ Reconciled /\ Fetched /\ ~last.raised
    /\ (last.fault.read \/ Pre.schema # "live")

\* C16: when the single bulk read of the persisted openTime -> isCompleted
\* mapping fails, reconcile inserts nothing and updates nothing on the series
\* in this call, and returns 0
C16_FailedBulkRead ==
    ReadFailed => (last.ret = 0 /\ store = last.pre)

\* the bulk read failed on a series that stores a bar of the window
\* incomplete and lacks another bar of the window
C16_Witness ==
    /\ ReadFailed
    /\ last.fault.read
    /\ Pre.schema = "live"
    /\ \E i \in 1..Len(W) : InPre(W[i].time) /\ PreFlag(W[i].time) = 0
    /\ \E i \in 1..Len(W) : ~InPre(W[i].time)
    /\ last.ret = 0

(***************************************************************************)
(* C17                                                                     *)
(***************************************************************************)
\* the write of the bar at position i of the window raised a store error:
\* the injected one, or the UNIQUE constraint refusing a second insert of
\* one open time
WriteFailed(i) ==
    \/ /\ ~WriteOk(i)
       /\ (~InPre(W[i].time)
             \/ PreFlag(W[i].time) = 0 \/ PreFlag(W[i].time) # Fresh(W[i].time))
    \/ /\ WriteOk(i)
       /\ ~InPre(W[i].time)
       /\ \E j \in 1..(i - 1) : W[j].time = W[i].time /\ WriteOk(j)

\* C17: when the insert or update of one bar of the window fails with a store
\* error, every later bar of the window is still processed, its insert or
\* update is applied, and the returned count is the number of the writes that
\* succeeded
C17_OneBadRow ==
    (ReadOk /\ \E k \in 1..Len(W) : WriteFailed(k)) =>
      /\ \A i \in 1..Len(W) :
           (Inserted(i) \/ Updated(i)) =>
              \E q \in RowsOf(Post, W[i].time) :
                 /\ q.is_completed = Fresh(W[i].time)
                 /\ (Inserted(i) => q = RowOf(W[i]))
                 /\ (Updated(i) /\ \A j \in (i + 1)..Len(W) :
                                      W[j].time = W[i].time => ~Updated(j))
                       => q = RowOf(W[i])
      /\ last.ret = Cardinality({i \in 1..Len(W) : Inserted(i) \/ Updated(i)})
      /\ last.ret <= Len(W) - Cardinality({k \in 1..Len(W) : WriteFailed(k)})

\* the write of the first bar of the window failed and the second bar, of
\* another open time, was written and counted
C17_Witness ==
    /\ ReadOk
    /\ Len(W) = 2
    /\ W[1].time # W[2].time
    /\ last.fault.write = 1
    /\ WriteFailed(1)
    /\ Inserted(2) \/ Updated(2)
    /\ RowOf(W[2]) \in BagToSet(Post.rows)
    /\ last.ret = 1

(***************************************************************************)
(* C19                                                                     *)
(***************************************************************************)
Saved == last.op = "save_to_database"

\* the downloaded window of the last backfill
D == last.data

\* the download has distinct open times in ascending order
Ascending(data) == \A i, j \in 1..Len(data) : i < j => data[i].time < data[j].time

\* the row the backfill's INSERT stores for a bar in the series it wrote to
SavedRow(bar) == BackfillRow(bar, Pre.schema)

\* C19: the backfill of a window of N >= 1 bars with distinct, ascending
\* openTimes on an empty series, no insert failing with a store error,
\* inserts exactly N - 1 rows, one for every bar but the last, and never the
\* last bar
C19_BackfillDropsLast ==
    (/\ Saved /\ ~last.repeat
     /\ Len(D) >= 1 /\ Ascending(D)
     /\ Pre.rows = EmptyBag
     /\ last.fault.write = 0) =>
      /\ last.inserted_rows = Len(D) - 1
      /\ BagCardinality(Post.rows) = Len(D) - 1
      /\ BagToSet(Post.rows) = {SavedRow(D[i]) : i \in 1..(Len(D) - 1)}
      /\ RowsOf(Post, D[Len(D)].time) = {}

\* a window of three ascending bars was saved on an empty series: two rows
C19_Witness ==
    /\ Saved /\ ~last.repeat
    /\ Len(D) = 3 /\ Ascending(D)
    /\ Pre.rows = EmptyBag
    /\ last.fault.write = 0
    /\ last.inserted_rows = 2
    /\ RowsOf(Post, D[3].time) = {}

(***************************************************************************)
(* C20                                                                     *)
(***************************************************************************)
\* the positions of the window, its last bar dropped, whose openTime is not
\* stored before the call and not at an earlier position
NewPositions ==
    {i \in 1..(Len(D) - 1) :
        /\ ~InPre(D[i].time)
        /\ \A j \in 1..(i - 1) : D[j].time # D[i].time}

\* C20: the backfill changes no field of any row already stored; no insert
\* failing with a store error, it inserts exactly the bars of the window
\* (minus its last bar) whose openTime is not yet stored and reports their
\* number as inserted_rows; a second backfill of the same window inserts 0
\* rows
C20_AppendIfAbsent ==
    Saved =>
      /\ \A r \in BagToSet(Pre.rows) :
           CopiesIn(r, Post.rows) = CopiesIn(r, Pre.rows)
      /\ last.fault.write = 0 =>
           /\ BagToSet(Post.rows) \ BagToSet(Pre.rows)
                = {SavedRow(D[i]) : i \in NewPositions}
           /\ \A r \in BagToSet(Post.rows) : CopiesIn(r, Post.rows) = 1
           /\ last.inserted_rows = Cardinality(NewPositions)
      /\ last.repeat => (last.inserted_rows = 0 /\ store = last.pre)

\* a second backfill of a window whose first backfill inserted one bar and
\* skipped a bar stored with other values: nothing is inserted, although the
\* read of the stored datetimes failed and every insert was attempted
C20_Witness ==
    /\ Saved /\ last.repeat
    /\ Len(D) = 3
    /\ last.first = 1
    /\ last.fault.read
    /\ \E i \in 1..2 : \E r \in RowsOf(Pre, D[i].time) : r.close # D[i].close
    /\ last.inserted_rows = 0
    /\ last.total_rows = 2

(***************************************************************************)
(* C11                                                                     *)
(***************************************************************************)
\* main() has left time.sleep for the cycle it last finished
Slept == main.pc \in {"while", "done"} /\ main.slept # 0

\* C11: after every cycle the duration the loop sleeps is
\* max(minSleep, cycleInterval - elapsedCycleTime), with minSleep = 0.05 s,
\* cycleInterval the value of calculate_update_interval and elapsedCycleTime
\* the measured duration of the cycle
C11_SelfCorrectingCadence ==
    Slept => main.slept = Max(5, main.update_interval - main.elapsed)

(***************************************************************************)
(* C12                                                                     *)
(***************************************************************************)
\* C12: once the signal handler has set running to false, wherever main()
\* stood, no new cycle is started after the one in progress, and the loop
\* eventually exits
C12_CancellationTerminates ==
    /\ [][~running => main'.started = main.started]_vars
    /\ (~running ~> main.pc = "done")

\* the loop has exited on a signal that arrived while the rows of a pair were
\* being written; the cycle in progress was finished and no other started
C12_Witness ==
    /\ main.pc = "done"
    /\ main.exit = "cancelled"
    /\ ~running
    /\ main.sig.pc = "rows"
    /\ main.update_count = 1
    /\ main.started = 1

(***************************************************************************)
(* C13                                                                     *)
(***************************************************************************)
\* the step is the delivery of the signal
Delivered == main.sig = NoSig /\ main'.sig # NoSig

\* the step is the commit of the reconcile in progress
Commits == main.pc = "rows" /\ main'.pc = "for"

\* C13: a signal arriving while a pair is reconciled does not interrupt the
\* call: the step of the handler changes neither where main() stands nor the
\* rows written so far nor the store; every commit publishes what
\* update_database makes of the whole fetched window at the one reference
\* time read at its start; and the loop does not exit on cancellation with a
\* reconcile in progress
C13_NoMidReconcileAbort ==
    /\ [][Delivered =>
            /\ main'.pc = main.pc
            /\ main'.i = main.i
            /\ main'.txn = main.txn
            /\ store' = store]_vars
    /\ [][Commits =>
            store' = update_database(store, MainPairs[main.i][1],
                                     MainPairs[main.i][2], main.txn.src,
                                     main.txn.current_time, main.txn.fault).db]_vars
    /\ []((main.pc = "done" /\ main.exit = "cancelled") => main.txn = NoTxn)

\* the signal arrived after the first of two rows was written; the second
\* row was written too, both were committed, and the loop then exited
C13_Witness ==
    /\ main.pc = "done"
    /\ main.exit = "cancelled"
    /\ main.sig = [pc |-> "rows", k |-> 1]
    /\ main.txn = NoTxn
    /\ \E s \in DOMAIN store :
         /\ RowsOf(store[s], 160) # {}
         /\ RowsOf(store[s], 220) # {}

(***************************************************************************)
(* C14                                                                     *)
(***************************************************************************)
\* config["timeframes"] holds a label unknown to the catalog
HasUnknown ==
    \E j \in 1..Len(main.timeframe_strings) :
       main.timeframe_strings[j] \notin CatalogLabels

\* main() got past its startup: the source and the store answered
SourceAndStoreUp ==
    main.pc # "start" /\ main.exit \notin {"startup", "init_database"}

\* C14: with labels unknown to the catalog in the configured list the
\* scheduler still starts, never reconciles a pair with an unknown label, and
\* reconciles every pair whose label is known in every cycle
C14_UnknownGranularitySkipped ==
    (HasUnknown /\ SourceAndStoreUp) =>
      /\ main.exit # "crash"
      /\ \A s \in DOMAIN store : s[2] \in CatalogLabels
      /\ \A j \in DOMAIN MainPairs : MainPairs[j][2] \in CatalogLabels
      /\ \A j \in 1..Len(main.timeframe_strings) :
           main.timeframe_strings[j] \in CatalogLabels =>
             \E q \in DOMAIN MainPairs :
                MainPairs[q][2] = main.timeframe_strings[j]
      /\ main.pc = "sleep" => \A j \in DOMAIN main.reconciled :
                                 main.reconciled[j] = 1
      /\ main.pc = "done" => main.started = main.update_count

(***************************************************************************)
(* C15                                                                     *)
(***************************************************************************)
\* C15: once startup has succeeded, no failure raised while a pair is
\* reconciled ends the loop; it ends only when cancelled
C15_NoInLoopErrorFatal ==
    (main.pc = "done" /\ main.started > 0) =>
       (main.exit = "cancelled" /\ ~running)

(***************************************************************************)
(* C18                                                                     *)
(***************************************************************************)
\* C18: in every cycle each pair is reconciled exactly once, one after
\* another, whatever a pair returned; every cycle that starts reconciles
\* every pair, and only cancellation keeps a pair that failed from being
\* reconciled again in the next cycle
C18_EveryPairOncePerCycle ==
    /\ main.pc \in {"for", "rows"} =>
         \A j \in DOMAIN main.reconciled :
            main.reconciled[j] = IF j < main.i THEN 1 ELSE 0
    /\ main.pc \in {"sleep", "while"} =>
         \A j \in DOMAIN main.reconciled : main.reconciled[j] = 1
    /\ (main.pc = "done" /\ main.started > 0) =>
         /\ \A j \in DOMAIN main.reconciled : main.reconciled[j] = 1
         /\ main.started = main.update_count
         /\ ~running

(***************************************************************************)
(* C22                                                                     *)
(***************************************************************************)
\* get_timeframe_seconds has been applied to a label
SecondsAsked == call.fn = "get_timeframe_seconds" /\ call.done

\* C22: for every label for which the catalog yields a native identifier,
\* get_timeframe_seconds returns a positive integer period in seconds
\* (2592000 for MN1) without raising
C22_CatalogTotality ==
    (SecondsAsked /\ get_timeframe_constant(call.timeframe_str).kind # "None") =>
      /\ call.result.kind = "int"
      /\ call.result.val > 0
      /\ call.timeframe_str = TF_MN1 => call.result.val = 2592000

(***************************************************************************)
(* C23                                                                     *)
(***************************************************************************)
\* C23: for every label for which get_timeframe_constant reports no native
\* identifier, get_timeframe_seconds returns None instead of a period
C23_UnknownReportedByBoth ==
    (SecondsAsked /\ get_timeframe_constant(call.timeframe_str).kind = "None") =>
      call.result.kind = "None"

(***************************************************************************)
(* C24                                                                     *)
(***************************************************************************)
\* the open times of the downloaded window
TimesOf(data) == {data[i].time : i \in 1..Len(data)}

\* C24: in whatever order the source delivers the window, the bar the
\* backfill drops is the one with the greatest openTime of the window, and
\* the other bars are stored
C24_WindowNormalization ==
    (/\ Saved /\ ~last.repeat
     /\ Len(D) >= 2
     /\ \A i, j \in 1..Len(D) : D[i].time = D[j].time => i = j
     /\ last.fault.write = 0) =>
      /\ ~InPre(SetMax(TimesOf(D))) => RowsOf(Post, SetMax(TimesOf(D))) = {}
      /\ \A t \in TimesOf(D) \ {SetMax(TimesOf(D))} : RowsOf(Post, t) # {}

(***************************************************************************)
(* C25                                                                     *)
(***************************************************************************)
\* the flag update_database computes for the bar at position i of the window
Computed(i) == DfRow(W[i], last.current_time, last.timeframe_str).is_completed

\* C25: within one reconcile every bar of the window is judged against the
\* one reference time read after the fetch; so of two bars of the window the
\* one that opened earlier is computed complete whenever the later one is,
\* and the flags written are the computed ones
C25_OneReferenceTime ==
    (Reconciled /\ Fetched /\ ~last.raised) =>
      /\ \A i \in 1..Len(W) :
           Computed(i) = FreshAt(last.current_time, W[i].time)
      /\ \A i, j \in 1..Len(W) :
           (W[i].time <= W[j].time /\ Computed(j) = 1) => Computed(i) = 1
      /\ ReadOk =>
           \A i \in 1..Len(W) :
              (Inserted(i) \/ Updated(i)) =>
                 \E q \in RowsOf(Post, W[i].time) : q.is_completed = Computed(i)

\* a window of a closed bar and the bar forming after it was written: the
\* earlier bar complete, the later one incomplete
C25_Witness ==
    /\ ReadOk
    /\ last.fault = NoFault
    /\ Len(W) = 2
    /\ W[1].time < W[2].time
    /\ Computed(1) = 1 /\ Computed(2) = 0
    /\ \A i \in 1..2 : Inserted(i) \/ Updated(i)

(***************************************************************************)
(* C27                                                                     *)
(***************************************************************************)
\* the last step was a call of either writer
Written == last.op \in {"update_database", "save_to_database"}

\* C27: no reconcile and no backfill, failing or not, removes a stored row
\* or a series: every openTime stored before the call is stored after it
C27_RowsNeverDeleted ==
    Written =>
      /\ DOMAIN store = DOMAIN last.pre
      /\ \A s \in DOMAIN last.pre :
           /\ \A r \in BagToSet(last.pre[s].rows) :
                \E q \in BagToSet(store[s].rows) : q.time = r.time
           /\ BagCardinality(store[s].rows) >= BagCardinality(last.pre[s].rows)
           /\ store[s].schema = last.pre[s].schema

\* a reconcile rewrote one stored bar, met a failing write on another and
\* left a third stored bar outside its window: all three are still stored
C27_Witness ==
    /\ ReadOk
    /\ BagCardinality(Pre.rows) = 3
    /\ BagCardinality(Post.rows) = 3
    /\ Len(W) = 2
    /\ Updated(1)
    /\ last.fault.write = 2
    /\ WriteFailed(2)

(***************************************************************************)
(* C30                                                                     *)
(***************************************************************************)
\* C30: on a series whose table the backfill created and populated, a
\* reconcile whose window holds an openTime not yet stored reads the existing
\* keys, inserts that bar and returns a count >= 1
C30_BackfillThenLive ==
    (/\ Reconciled /\ Fetched /\ ~last.raised
     /\ last.fault = NoFault
     /\ Pre.schema = "backfill"
     /\ Pre.rows # EmptyBag
     /\ \E i \in 1..Len(W) : ~InPre(W[i].time)) =>
      /\ last.ret >= 1
      /\ \A i \in 1..Len(W) : RowsOf(Post, W[i].time) # {}

(***************************************************************************)
(* C29                                                                     *)
(***************************************************************************)
\* main() has ended after the source session was logged in and the store
\* connection opened
EndedAfterOpening == main.pc = "done" /\ main.conn # "none"

\* C29: on every path on which the live updater ends after the login and the
\* opening of the store connection, the connection is closed and the source
\* session shut down before the process ends
C29_CleanupOnEveryExit ==
    EndedAfterOpening => (main.conn = "closed" /\ main.mt5 = "shutdown")

(***************************************************************************)
(* C26                                                                     *)
(***************************************************************************)
\* is_candle_complete has been applied to a label outside the catalog, for
\* which no period is defined
UndeterminedAsked ==
    /\ call.fn = "is_candle_complete"
    /\ call.done
    /\ get_timeframe_constant(call.timeframe_str).kind = "None"

\* C26: for a label whose period cannot be determined, is_candle_complete
\* returns true for every open time and every reference time (so a bar of
\* that label is stored complete and no later reconcile rewrites it)
C26_DegradedCompletionMode ==
    UndeterminedAsked => call.result = [kind |-> "bool", val |-> TRUE]

\* the same, for the labels get_timeframe_seconds itself answers None for
C26_WhereSecondsIsNone ==
    (UndeterminedAsked /\ get_timeframe_seconds(call.timeframe_str).kind = "None")
      => call.result = [kind |-> "bool", val |-> TRUE]

(***************************************************************************)
(* C28                                                                     *)
(***************************************************************************)
\* the bar opened at t is stored with is_completed = 0 / = 1
StoredIncomplete(t) ==
    \E s \in Series : \E r \in RowsOf(store[s], t) : r.is_completed = 0

StoredComplete(t) ==
    \E s \in Series :
      /\ RowsOf(store[s], t) # {}
      /\ \A r \in RowsOf(store[s], t) : r.is_completed = 1

\* the last reconcile fetched a window holding the bar opened at t and met
\* no store failure
ReturnedNoFailure(t) ==
    /\ ReadOk
    /\ last.fault = NoFault
    /\ \E i \in 1..Len(W) : W[i].time = t

\* C28: if the scheduler keeps cycling, the wall clock advances and the source
\* keeps returning a stored incomplete bar in the fetched window with no store
\* failure, the bar is eventually stored with is_completed = 1: a reconcile
\* with reference time >= openTime + G that fetches it leaves it complete
C28_IncompleteEventuallyComplete ==
    /\ [](\A t \in OpenTimes :
            (ReturnedNoFailure(t) /\ InPre(t) /\ last.current_time >= t + G)
              => \A r \in RowsOf(Post, t) : r.is_completed = 1)
    /\ \A t \in OpenTimes :
         ([]<>ReturnedNoFailure(t)) => (StoredIncomplete(t) ~> StoredComplete(t))

\* a bar stored incomplete was fetched again at a reference time at or after
\* its close and is now stored complete
C28_Witness ==
    \E t \in OpenTimes :
      /\ ReturnedNoFailure(t)
      /\ InPre(t)
      /\ PreFlag(t) = 0
      /\ last.current_time >= t + G
      /\ StoredComplete(t)
      /\ last.ret >= 1

(***************************************************************************)
(* C21                                                                     *)
(***************************************************************************)
\* a /candles request was answered with a list of candles
Answered == last.op = "get_candles" /\ last.status = 200

\* the stored candles the request's filters select
Matching ==
    {r \in BagToSet(store[<<last.symbol, last.timeframe_str>>].rows) :
       /\ last.start.given => r.time >= last.start.t
       /\ last.end.given => r.time <= last.end.t
       /\ last.completed_only => r.is_completed = 1}

Body == {last.body[i] : i \in 1..Len(last.body)}

\* the response holds at most `limit` candles (none when the limit is
\* negative), the newest of those matching the filters, newest first and none
\* twice
NewestMatching ==
    /\ Len(last.body) <= Max(last.limit, 0)
    /\ Body \subseteq Matching
    /\ Cardinality(Body) = Len(last.body)
    /\ Len(last.body) < last.limit => Body = Matching
    /\ \A r \in Body : \A q \in Matching \ Body : q.time < r.time
    /\ \A i \in 1..(Len(last.body) - 1) : last.body[i].time > last.body[i + 1].time
    /\ last.completed_only => \A r \in Body : r.is_completed = 1

\* C21: for every stored series and every request, the response of /candles
\* holds at most `limit` candles, they are the candles with the greatest time
\* among those matching the start_time/end_time filters, and when
\* completed_only is true every returned candle has is_completed = 1
C21_CandlesResponse == Answered => NewestMatching

\* the same, for the requests whose limit is not negative
C21_WhereLimitNotNegative == (Answered /\ last.limit >= 0) => NewestMatching

(***************************************************************************)
(* C31                                                                     *)
(***************************************************************************)
\* no two rows of the table share an open time
OneRowPerOpenTime(table) ==
    \A r \in BagToSet(table.rows) :
      /\ CopiesIn(r, table.rows) = 1
      /\ \A q \in BagToSet(table.rows) : q.time = r.time => q = r

\* the passes of writer w's row loop that wrote a row
Counted(w) == {j \in 1..Len(writers[w].log) : writers[w].log[j].ok}

\* C31: when two writers interleave their read-existing-keys and insert steps
\* on one series, no interleaving produces two rows with the same openTime;
\* the writer whose insert arrives second fails on that row, does not count
\* it, and continues with its remaining bars
C31_ConcurrentWriters ==
    /\ \A s \in DOMAIN store : OneRowPerOpenTime(store[s])
    /\ \A w \in DOMAIN writers :
         /\ writers[w].lock => OneRowPerOpenTime(writers[w].table)
         /\ \A j \in 1..Len(writers[w].log) :
              writers[w].log[j].second => ~writers[w].log[j].ok
         /\ writers[w].count = Cardinality(Counted(w))
         /\ Len(writers[w].log) = writers[w].k
         /\ (writers[w].pc \in {"done", "raised"} /\ writers[w].log # << >>)
              => writers[w].k = Len(writers[w].df)

\* a writer's insert arrived second and failed, its next bar was inserted and
\* counted, and both writers have committed
C31_Witness ==
    \E w \in DOMAIN writers :
      /\ writers[w].pc = "done"
      /\ writers[TheOther(w)].pc = "done"
      /\ writers[TheOther(w)].kind # writers[w].kind
      /\ Len(writers[w].log) = 2
      /\ writers[w].log[1].second /\ ~writers[w].log[1].ok
      /\ writers[w].log[2].ok
      /\ writers[w].count = 1
      /\ BagCardinality(store[Shared].rows) >= 2

====
